---- MODULE Spec2Model ----
(***************************************************************************)
(* Model of the schedule-generation engine of SchoolSchedulePro            *)
(* (server/services/schedulingEngine.ts): the SchedulingEngine singleton,  *)
(* its generateSchedule run and the storage tables it reads, and of the    *)
(* POST /api/generate-schedule handler around it (server/routes.ts).       *)
(*                                                                         *)
(* JavaScript runs one invocation at a time and switches between pending   *)
(* invocations only at an await.  An action below is the code executed     *)
(* between two awaits on storage I/O; `running` names the invocation that  *)
(* holds the thread between two such actions (0: the thread is free).      *)
(* The awaits of findSuitableRoom and of findSuitableTimeSlots itself      *)
(* resolve without I/O; the code around them is kept in one action, so the *)
(* overlapping runs of SpecConc are a subset of those the runtime allows.  *)
(* The for-of over classSubjects walks the array loaded by the invocation; *)
(* the stored class-subject rows never change here, so the engine field    *)
(* holds the same rows.                                                    *)
(***************************************************************************)
EXTENDS Integers, Sequences, FiniteSets, TLC

\* ------------------------------------------------------------------ bounds
MaxAssign == 2      \* class-subject assignments in the stored catalog
MaxHours  == 2      \* largest weeklyHours of a subject

\* --------------------------------------------------------- program constants
DefaultMaxPerDay  == 6
DefaultMaxPerWeek == 30
WeekNumber        == 1

\* null / undefined of an id or a number (every falsy value of the code)
Null == 0

Invs == {1, 2}

Days == {"monday", "tuesday", "wednesday", "thursday", "friday"}

\* a || b of JavaScript on numbers and ids
JsOr(a, b) == IF a = Null THEN b ELSE a

Min(S) == CHOOSE x \in S : \A y \in S : x <= y

\* parseInt(t.split(':')[0]) of a time "HH:MM", kept as <<HH, MM>>
ParseHour(t) == t[1]

\* ------------------------------------------------------------ the catalog
NoAvailability == [isNull |-> TRUE, days |-> [d \in {} |-> <<>>]]

MondayEarly ==
    [isNull |-> FALSE,
     days   |-> [d \in {"monday"} |-> << [start |-> <<8, 0>>, end |-> <<9, 0>>] >>]]

TeacherRow(id, perDay, perWeek, avail) ==
    [id |-> id, maxClassesPerDay |-> perDay, maxClassesPerWeek |-> perWeek,
     availability |-> avail]

RoomRow(id, avail) == [id |-> id, isAvailable |-> avail]

PeriodRow(id, name, day, sh, eh, brk, oi) ==
    [id |-> id, name |-> name, dayOfWeek |-> day, startTime |-> <<sh, 0>>,
     endTime |-> <<eh, 0>>, isBreak |-> brk, orderIndex |-> oi]

\* stored time periods: the later Monday hour has the lower orderIndex, and the
\* break is the earliest hour of the week
StoredPeriods ==
    << PeriodRow(1, "Mon-9",  "monday",  9, 10, FALSE, 1),
       PeriodRow(2, "Mon-8",  "monday",  8, 9,  FALSE, 2),
       PeriodRow(3, "Mon-7",  "monday",  7, 8,  TRUE,  3),
       PeriodRow(4, "Tue-8",  "tuesday", 8, 9,  FALSE, 4) >>

StoredClasses == << [id |-> 1, name |-> "C1"], [id |-> 2, name |-> "C2"] >>

SubjectRows(h1) ==
    << [id |-> 1, name |-> "Math", weeklyHours |-> h1],
       [id |-> 2, name |-> "Art",  weeklyHours |-> 1] >>

\* the kinds of class-subject assignment: <<subjectId, teacherId, preferredRoomId>>,
\* one plain, one with a preferred room, one pinned to teacher 2
AssignmentKinds == { <<1, Null, Null>>, <<2, Null, 1>>, <<1, 2, Null>> }

ClassSubjectRows ==
    { [classId |-> c, subjectId |-> a[1], teacherId |-> a[2], preferredRoomId |-> a[3]] :
        c \in {1, 2}, a \in AssignmentKinds }

SeqsUpTo(S, n) == UNION { [1..k -> S] : k \in 0..n }

\* maxClassesPerDay of teacher 1
DayCaps == {1, 2}

TS(t, s) == [teacherId |-> t, subjectId |-> s]

\* stored teacher-subject rows: both teachers teach everything, or only teacher 1
TeacherSubjectTables ==
    { << TS(1, 1), TS(2, 1), TS(1, 2), TS(2, 2) >>,
      << TS(1, 1), TS(1, 2) >> }

RoomTables ==
    { << RoomRow(1, TRUE),  RoomRow(2, TRUE)  >>,
      << RoomRow(1, TRUE),  RoomRow(2, FALSE) >>,
      << RoomRow(1, FALSE), RoomRow(2, TRUE)  >> }

StoredConstraints ==
    << [id |-> 1, type |-> "hard", scope |-> "teacher", targetId |-> 1, isActive |-> TRUE],
       [id |-> 2, type |-> "soft", scope |-> "class",   targetId |-> 2, isActive |-> TRUE] >>

Catalogs ==
    { [classes         |-> StoredClasses,
       subjects        |-> SubjectRows(h1),
       teachers        |-> << TeacherRow(1, cap, 2, NoAvailability),
                              TeacherRow(2, 2, 3, av2) >>,
       rooms           |-> rm,
       timePeriods     |-> StoredPeriods,
       classSubjects   |-> cs,
       teacherSubjects |-> ts,
       constraints     |-> StoredConstraints,
       timetableEntries |-> << >>,
       scheduleSettings |-> << >>] :
        h1 \in 1..MaxHours, cap \in DayCaps, av2 \in {NoAvailability, MondayEarly},
        rm \in RoomTables, cs \in SeqsUpTo(ClassSubjectRows, MaxAssign),
        ts \in TeacherSubjectTables }

Options(morning, hard) ==
    [optimizeTeacherWorkload  |-> FALSE,
     minimizeRoomChanges      |-> FALSE,
     prioritizeMorningClasses |-> morning,
     enforceHardConstraints   |-> hard,
     respectSoftConstraints   |-> FALSE]

OptionSet == { Options(m, h) : m \in BOOLEAN, h \in BOOLEAN }

\* ------------------------------------------------------------------ state
VARIABLES
    storage,          \* the stored tables (the persistence collaborator)
    classes, subjects, teachers, rooms, timePeriods, classSubjects, constraints,
    teacherWorkloads, \* engine field: teacher id -> workload
    generatedEntries, \* engine field: the committed entries
    pc,               \* per invocation: where generateSchedule stands
    options,          \* per invocation: the options argument
    csIdx,            \* per invocation: position of the for-of over classSubjects
    suitableSlots,    \* per invocation: slots of the current assignment
    slotIdx,          \* per invocation: the loop variable i (1-based)
    conflicts,        \* per invocation: local conflicts list
    conflictsResolved,\* per invocation: local counter
    result,           \* per invocation: the value returned
    log,              \* history, per invocation: slots found and slot outcomes
    thrown,           \* history, per invocation: a storage call rejected
    loadedTeacherSubjects, \* history, per invocation: the teacher-subject rows
                      \* stored when loadData resolved
    running           \* the invocation holding the thread, or 0

engineVars == << classes, subjects, teachers, rooms, timePeriods, classSubjects,
                 constraints, teacherWorkloads, generatedEntries >>
localVars  == << pc, options, csIdx, suitableSlots, slotIdx, conflicts,
                 conflictsResolved, result, log, thrown, loadedTeacherSubjects >>
vars       == << storage, engineVars, localVars, running >>

\* ------------------------------------------------------- array helpers
\* index of the first row of seq with the id, 0 when Array.find gives undefined
FindIdx(seq, id) ==
    IF \E k \in DOMAIN seq : seq[k].id = id
    THEN Min({k \in DOMAIN seq : seq[k].id = id})
    ELSE 0

\* a comparator that ignores prioritizeMorningClasses
PeriodKeyOrderIndexOnly(tp, opts) == tp.orderIndex

\* the sort key of the comparator in findSuitableTimeSlots
PeriodKey(tp, opts) ==
    IF opts.prioritizeMorningClasses THEN ParseHour(tp.startTime) ELSE tp.orderIndex

\* x placed behind every element whose key is not larger (Array.sort is stable)
RECURSIVE InsertSorted(_, _, _)
InsertSorted(sorted, x, opts) ==
    IF sorted = << >> THEN << x >>
    ELSE IF PeriodKey(x, opts) - PeriodKey(Head(sorted), opts) < 0
         THEN << x >> \o sorted
         ELSE << Head(sorted) >> \o InsertSorted(Tail(sorted), x, opts)

RECURSIVE SortPeriods(_, _)
SortPeriods(seq, opts) ==
    IF seq = << >> THEN << >>
    ELSE InsertSorted(SortPeriods(SubSeq(seq, 1, Len(seq) - 1), opts), seq[Len(seq)], opts)

\* the sort without the filter on isBreak
SortedTimePeriodsWithBreaks(opts) ==
    SortPeriods(timePeriods, opts)

\* [...this.timePeriods].filter(tp => !tp.isBreak).sort(...)
SortedTimePeriods(opts) ==
    SortPeriods(SelectSeq(timePeriods, LAMBDA tp : ~tp.isBreak), opts)

\* --------------------------------------------------- the engine's checks
isTeacherAvailableOpenDays(teacher, timePeriod) ==
    IF teacher.availability.isNull THEN TRUE
    ELSE IF timePeriod.dayOfWeek \notin DOMAIN teacher.availability.days THEN TRUE
    ELSE LET dayAvailability == teacher.availability.days[timePeriod.dayOfWeek]
         IN \E k \in DOMAIN dayAvailability :
                /\ ParseHour(timePeriod.startTime) >= ParseHour(dayAvailability[k].start)
                /\ ParseHour(timePeriod.endTime) <= ParseHour(dayAvailability[k].end)

isTeacherAvailable(teacher, timePeriod) ==
    IF teacher.availability.isNull THEN TRUE
    ELSE IF timePeriod.dayOfWeek \notin DOMAIN teacher.availability.days THEN FALSE
    ELSE LET dayAvailability == teacher.availability.days[timePeriod.dayOfWeek]
             startHour == ParseHour(timePeriod.startTime)
             endHour   == ParseHour(timePeriod.endTime)
         IN \E k \in DOMAIN dayAvailability :
                /\ startHour >= ParseHour(dayAvailability[k].start)
                /\ endHour <= ParseHour(dayAvailability[k].end)

checkTeacherWorkloadConstraints(teacher, timePeriod) ==
    IF teacher.id \notin DOMAIN teacherWorkloads THEN FALSE
    ELSE LET workload == teacherWorkloads[teacher.id]
         IN IF workload.classesPerDay[timePeriod.dayOfWeek]
                  >= JsOr(teacher.maxClassesPerDay, DefaultMaxPerDay) THEN FALSE
            ELSE IF workload.totalClasses
                  >= JsOr(teacher.maxClassesPerWeek, DefaultMaxPerWeek) THEN FALSE
            ELSE TRUE

isRoomAvailable(room, timePeriod) ==
    ~ \E k \in DOMAIN generatedEntries :
          /\ generatedEntries[k].roomId = room.id
          /\ generatedEntries[k].timePeriodId = timePeriod.id

\* a room search that takes the first unbooked room, flagged available or not
findSuitableRoomIgnoringFlag(classSubject, timePeriod) ==
    LET pk   == FindIdx(rooms, classSubject.preferredRoomId)
        free == {k \in DOMAIN rooms : isRoomAvailable(rooms[k], timePeriod)}
    IN IF /\ classSubject.preferredRoomId # Null
          /\ pk # 0
          /\ isRoomAvailable(rooms[pk], timePeriod)
       THEN rooms[pk].id
       ELSE IF free = {} THEN Null ELSE rooms[Min(free)].id

\* the id of the room found, Null for undefined
findSuitableRoom(classSubject, timePeriod) ==
    LET pk   == FindIdx(rooms, classSubject.preferredRoomId)
        free == {k \in DOMAIN rooms :
                    rooms[k].isAvailable /\ isRoomAvailable(rooms[k], timePeriod)}
    IN IF /\ classSubject.preferredRoomId # Null
          /\ pk # 0
          /\ isRoomAvailable(rooms[pk], timePeriod)
       THEN rooms[pk].id
       ELSE IF free = {} THEN Null ELSE rooms[Min(free)].id

checkConflicts(entry) ==
    [teacherConflicts |->
        \E k \in DOMAIN generatedEntries :
            /\ generatedEntries[k].teacherId = entry.teacherId
            /\ generatedEntries[k].timePeriodId = entry.timePeriodId,
     roomConflicts |->
        IF entry.roomId # Null
        THEN \E k \in DOMAIN generatedEntries :
                /\ generatedEntries[k].roomId = entry.roomId
                /\ generatedEntries[k].timePeriodId = entry.timePeriodId
        ELSE FALSE,
     classConflicts |->
        \E k \in DOMAIN generatedEntries :
            /\ generatedEntries[k].classId = entry.classId
            /\ generatedEntries[k].timePeriodId = entry.timePeriodId]

\* storage.getSubjectTeachers mapped onto this.teachers, rows without a teacher dropped
getAvailableTeachers(subjectId) ==
    LET rows  == SelectSeq(storage.teacherSubjects, LAMBDA ts : ts.subjectId = subjectId)
        known == SelectSeq(rows, LAMBDA ts : FindIdx(teachers, ts.teacherId) # 0)
    IN [k \in DOMAIN known |-> teachers[FindIdx(teachers, known[k].teacherId)]]

\* a validator that fails the constraint for the entries its target matches
applyConstraintFailsTarget(constraint, entry) ==
    IF constraint.scope = "teacher"
    THEN constraint.targetId # Null /\ constraint.targetId # entry.teacherId
    ELSE IF constraint.scope = "class"
    THEN constraint.targetId # Null /\ constraint.targetId # entry.classId
    ELSE IF constraint.scope = "subject"
    THEN constraint.targetId # Null /\ constraint.targetId # entry.subjectId
    ELSE IF constraint.scope = "room"
    THEN constraint.targetId # Null /\ constraint.targetId # entry.roomId
    ELSE TRUE

\* a validator that fails a constraint without target
applyConstraintFailsUntargeted(constraint, entry) ==
    constraint.targetId # Null

applyConstraint(constraint, entry) ==
    IF constraint.scope = "teacher"
         /\ constraint.targetId # Null /\ constraint.targetId # entry.teacherId THEN TRUE
    ELSE IF constraint.scope = "class"
         /\ constraint.targetId # Null /\ constraint.targetId # entry.classId THEN TRUE
    ELSE IF constraint.scope = "subject"
         /\ constraint.targetId # Null /\ constraint.targetId # entry.subjectId THEN TRUE
    ELSE IF constraint.scope = "room"
         /\ constraint.targetId # Null /\ constraint.targetId # entry.roomId THEN TRUE
    ELSE TRUE

validateConstraints(entry, opts) ==
    IF ~opts.enforceHardConstraints /\ ~opts.respectSoftConstraints THEN TRUE
    ELSE ~ \E k \in DOMAIN constraints :
              /\ constraints[k].isActive
              /\ ~(constraints[k].type = "soft" /\ ~opts.respectSoftConstraints)
              /\ constraints[k].type = "hard"
              /\ ~applyConstraint(constraints[k], entry)

\* the loop without the break at periodsNeeded slots
RECURSIVE ScanPeriodsNoBreak(_, _, _, _, _, _)
ScanPeriodsNoBreak(sorted, k, acc, classSubject, periodsNeeded, availableTeachers) ==
    IF k > Len(sorted) THEN acc
    ELSE LET timePeriod == sorted[k]
             ok == {j \in DOMAIN availableTeachers :
                       /\ isTeacherAvailable(availableTeachers[j], timePeriod)
                       /\ checkTeacherWorkloadConstraints(availableTeachers[j], timePeriod)}
             slot == [timePeriodId |-> timePeriod.id,
                      timePeriod   |-> timePeriod,
                      teacherId    |-> availableTeachers[Min(ok)].id,
                      roomId       |-> findSuitableRoom(classSubject, timePeriod)]
         IN ScanPeriodsNoBreak(sorted, k + 1, IF ok = {} THEN acc ELSE Append(acc, slot),
                               classSubject, periodsNeeded, availableTeachers)

\* the loop over sortedTimePeriods of findSuitableTimeSlots, from position k on
RECURSIVE ScanPeriods(_, _, _, _, _, _)
ScanPeriods(sorted, k, acc, classSubject, periodsNeeded, availableTeachers) ==
    IF k > Len(sorted) \/ Len(acc) >= periodsNeeded THEN acc
    ELSE LET timePeriod == sorted[k]
             ok == {j \in DOMAIN availableTeachers :
                       /\ isTeacherAvailable(availableTeachers[j], timePeriod)
                       /\ checkTeacherWorkloadConstraints(availableTeachers[j], timePeriod)}
             slot == [timePeriodId |-> timePeriod.id,
                      timePeriod   |-> timePeriod,
                      teacherId    |-> availableTeachers[Min(ok)].id,
                      roomId       |-> findSuitableRoom(classSubject, timePeriod)]
         IN ScanPeriods(sorted, k + 1, IF ok = {} THEN acc ELSE Append(acc, slot),
                        classSubject, periodsNeeded, availableTeachers)

\* a Slot Finder that ranks the eligible teachers when optimizeTeacherWorkload
\* is set: it tries them last first
findSuitableTimeSlotsRanked(classSubject, periodsNeeded, opts) ==
    LET eligible == getAvailableTeachers(classSubject.subjectId)
        ranked == [k \in DOMAIN eligible |-> eligible[Len(eligible) + 1 - k]]
    IN ScanPeriods(SortedTimePeriods(opts), 1, << >>, classSubject, periodsNeeded,
                   IF opts.optimizeTeacherWorkload THEN ranked ELSE eligible)

findSuitableTimeSlots(classSubject, periodsNeeded, opts) ==
    ScanPeriods(SortedTimePeriods(opts), 1, << >>, classSubject, periodsNeeded,
                getAvailableTeachers(classSubject.subjectId))

NoEntry == [found |-> FALSE]

\* a resolver that tries another room before another teacher
resolveConflictsRoomFirst(entry) ==
    LET alternativeTeachers == getAvailableTeachers(entry.subjectId)
        tpk == FindIdx(timePeriods, entry.timePeriodId)
        okT == {k \in DOMAIN alternativeTeachers :
                   /\ alternativeTeachers[k].id # entry.teacherId
                   /\ tpk # 0
                   /\ isTeacherAvailable(alternativeTeachers[k], timePeriods[tpk])
                   /\ LET c == checkConflicts([entry EXCEPT !.teacherId = alternativeTeachers[k].id])
                      IN ~c.teacherConflicts /\ ~c.classConflicts}
        okR == {k \in DOMAIN rooms :
                   /\ rooms[k].id # entry.roomId
                   /\ rooms[k].isAvailable
                   /\ tpk # 0
                   /\ isRoomAvailable(rooms[k], timePeriods[tpk])
                   /\ ~checkConflicts([entry EXCEPT !.roomId = rooms[k].id]).roomConflicts}
    IN IF entry.roomId # Null /\ okR # {}
       THEN [found |-> TRUE, entry |-> [entry EXCEPT !.roomId = rooms[Min(okR)].id]]
       ELSE IF entry.teacherId # Null /\ okT # {}
       THEN [found |-> TRUE,
             entry |-> [entry EXCEPT !.teacherId = alternativeTeachers[Min(okT)].id]]
       ELSE NoEntry

\* the entry returned, or NoEntry for null
resolveConflicts(entry) ==
    LET alternativeTeachers == getAvailableTeachers(entry.subjectId)
        tpk == FindIdx(timePeriods, entry.timePeriodId)
        okT == {k \in DOMAIN alternativeTeachers :
                   /\ alternativeTeachers[k].id # entry.teacherId
                   /\ tpk # 0
                   /\ isTeacherAvailable(alternativeTeachers[k], timePeriods[tpk])
                   /\ LET c == checkConflicts([entry EXCEPT !.teacherId = alternativeTeachers[k].id])
                      IN ~c.teacherConflicts /\ ~c.classConflicts}
        okR == {k \in DOMAIN rooms :
                   /\ rooms[k].id # entry.roomId
                   /\ rooms[k].isAvailable
                   /\ tpk # 0
                   /\ isRoomAvailable(rooms[k], timePeriods[tpk])
                   /\ ~checkConflicts([entry EXCEPT !.roomId = rooms[k].id]).roomConflicts}
    IN IF entry.teacherId # Null /\ okT # {}
       THEN [found |-> TRUE,
             entry |-> [entry EXCEPT !.teacherId = alternativeTeachers[Min(okT)].id]]
       ELSE IF entry.roomId # Null /\ okR # {}
       THEN [found |-> TRUE, entry |-> [entry EXCEPT !.roomId = rooms[Min(okR)].id]]
       ELSE NoEntry

\* workload.classesPerDay[dayOfWeek]++ ; workload.totalClasses++
updateTeacherWorkload(workloads, teacherId, dayOfWeek) ==
    IF teacherId \in DOMAIN workloads
    THEN [workloads EXCEPT ![teacherId].classesPerDay[dayOfWeek] = @ + 1,
                           ![teacherId].totalClasses = @ + 1]
    ELSE workloads

\* a tracker set up without teacherWorkloads.clear(), only for teachers not yet
\* in the map
initializeWorkloadTrackingKeeping(loaded) ==
    [t \in {loaded[k].id : k \in DOMAIN loaded} |->
        IF t \in DOMAIN teacherWorkloads
        THEN teacherWorkloads[t]
        ELSE [teacherId |-> t, classesPerDay |-> [d \in Days |-> 0], totalClasses |-> 0]]

\* the map built by initializeWorkloadTracking for the teachers just loaded
initializeWorkloadTracking(loaded) ==
    [t \in {loaded[k].id : k \in DOMAIN loaded} |->
        [teacherId |-> t, classesPerDay |-> [d \in Days |-> 0], totalClasses |-> 0]]

\* ------------------------------------------------------------- results
NoAssignmentsMessage == "No class-subject assignments found. Please assign subjects to classes first."
StorageError == "storage error"

EmptyResult ==
    [success          |-> FALSE,
     timetableEntries |-> << >>,
     stats            |-> [totalClasses |-> 0, totalEntries |-> 0, conflictsResolved |-> 0],
     conflicts        |-> << >>,
     errors           |-> << >>]

\* a catch block that hands out the entries pushed so far
FailureResultWithEntries(message) ==
    [EmptyResult EXCEPT !.errors = << message >>, !.timetableEntries = generatedEntries]

\* the object returned for zero assignments and by the catch block
FailureResult(message) == [EmptyResult EXCEPT !.errors = << message >>]

\* a result that reports success only when nothing was left unresolved
SuccessResultOnlyWithoutConflicts(i) ==
    [success          |-> conflicts[i] = << >>,
     timetableEntries |-> generatedEntries,
     stats            |-> [totalClasses      |-> Len(classes),
                           totalEntries      |-> Len(generatedEntries),
                           conflictsResolved |-> conflictsResolved[i]],
     conflicts        |-> conflicts[i],
     errors           |-> << >>]

\* a result that lists the committed entries newest first
SuccessResultNewestFirst(i) ==
    [success          |-> TRUE,
     timetableEntries |-> [k \in DOMAIN generatedEntries |->
                              generatedEntries[Len(generatedEntries) + 1 - k]],
     stats            |-> [totalClasses      |-> Len(classes),
                           totalEntries      |-> Len(generatedEntries),
                           conflictsResolved |-> conflictsResolved[i]],
     conflicts        |-> conflicts[i],
     errors           |-> << >>]

\* a result whose conflictsResolved counts the conflict messages
SuccessResultCountingMessages(i) ==
    [success          |-> TRUE,
     timetableEntries |-> generatedEntries,
     stats            |-> [totalClasses      |-> Len(classes),
                           totalEntries      |-> Len(generatedEntries),
                           conflictsResolved |-> Len(conflicts[i])],
     conflicts        |-> conflicts[i],
     errors           |-> << >>]

\* the object returned after the loop
SuccessResult(i) ==
    [success          |-> TRUE,
     timetableEntries |-> generatedEntries,
     stats            |-> [totalClasses      |-> Len(classes),
                           totalEntries      |-> Len(generatedEntries),
                           conflictsResolved |-> conflictsResolved[i]],
     conflicts        |-> conflicts[i],
     errors           |-> << >>]

ShortfallMessage(periodsNeeded, subject, classObj) ==
    [kind |-> "shortfall", periodsNeeded |-> periodsNeeded,
     subject |-> subject.name, class |-> classObj.name, period |-> ""]

UnresolvableMessage(subject, classObj, timePeriod) ==
    [kind |-> "unresolvable", periodsNeeded |-> 0,
     subject |-> subject.name, class |-> classObj.name, period |-> timePeriod.name]

\* ------------------------------------------------- locals of one iteration
CurClassSubject(i) == classSubjects[csIdx[i]]
CurSubject(i) == subjects[FindIdx(subjects, CurClassSubject(i).subjectId)]
CurClass(i)   == classes[FindIdx(classes, CurClassSubject(i).classId)]
PeriodsNeeded(i) == CurSubject(i).weeklyHours
CurSlot(i) == suitableSlots[i][slotIdx[i]]

\* the entry built from the assignment and the slot
BuildEntry(classSubject, slot) ==
    [classId      |-> classSubject.classId,
     subjectId    |-> classSubject.subjectId,
     teacherId    |-> JsOr(classSubject.teacherId, slot.teacherId),
     roomId       |-> JsOr(classSubject.preferredRoomId, slot.roomId),
     timePeriodId |-> slot.timePeriodId,
     weekNumber   |-> WeekNumber,
     isGenerated  |-> TRUE]

\* the if of the slot loop: the entry needs the resolver
NeedsResolve(entry, opts) ==
    LET conflictCheck == checkConflicts(entry)
    IN \/ conflictCheck.teacherConflicts
       \/ conflictCheck.roomConflicts
       \/ conflictCheck.classConflicts
       \/ ~validateConstraints(entry, opts)

\* Math.min(suitableSlots.length, periodsNeeded)
SlotLimit(i) ==
    IF Len(suitableSlots[i]) < PeriodsNeeded(i) THEN Len(suitableSlots[i]) ELSE PeriodsNeeded(i)

\* history records: "slots" (n slots found for assignment cs) and the outcome
\* of slot n of assignment cs: "direct", "resolved" (pushed) or "unresolved"
NoneEntry ==
    [classId |-> Null, subjectId |-> Null, teacherId |-> Null, roomId |-> Null,
     timePeriodId |-> Null, weekNumber |-> Null, isGenerated |-> FALSE]

Event(kind, cs, n, entry) == [kind |-> kind, cs |-> cs, n |-> n, entry |-> entry]

\* a shortfall reported only when no slot at all was found
WithShortfallOnlyWhenEmpty(list, found, periodsNeeded, subject, classObj) ==
    IF Len(found) = 0 /\ periodsNeeded > 0
    THEN Append(list, ShortfallMessage(periodsNeeded, subject, classObj))
    ELSE list

\* lines 99-103: the shortfall message is pushed before any slot is tried
WithShortfall(list, found, periodsNeeded, subject, classObj) ==
    IF Len(found) < periodsNeeded
    THEN Append(list, ShortfallMessage(periodsNeeded, subject, classObj))
    ELSE list

\* the check made on the classes instead of the class-subject assignments
HasNoAssignmentsByClasses(loadedClasses, loadedClassSubjects) == Len(loadedClasses) = 0

\* line 69: the check for zero assignments
HasNoAssignments(loadedClasses, loadedClassSubjects) == Len(loadedClassSubjects) = 0

\* ---------------------------------------------------------------- actions
\* generateSchedule is called: it runs to the await of loadData
Call(i) ==
    /\ pc[i] = "idle"
    /\ running = 0
    /\ pc' = [pc EXCEPT ![i] = "load"]
    /\ UNCHANGED << storage, engineVars, options, csIdx, suitableSlots, slotIdx,
                    conflicts, conflictsResolved, result, log, thrown, running >>
    /\ UNCHANGED loadedTeacherSubjects

\* loadData resolves; initializeWorkloadTracking; the entries are cleared; the
\* check for zero assignments
LoadData(i) ==
    /\ pc[i] = "load"
    /\ running = 0
    /\ classes' = storage.classes
    /\ subjects' = storage.subjects
    /\ teachers' = storage.teachers
    /\ rooms' = storage.rooms
    /\ timePeriods' = storage.timePeriods
    /\ classSubjects' = storage.classSubjects
    /\ constraints' = storage.constraints
    /\ teacherWorkloads' = initializeWorkloadTracking(storage.teachers)
    /\ generatedEntries' = << >>
    /\ loadedTeacherSubjects' = [loadedTeacherSubjects EXCEPT ![i] = storage.teacherSubjects]
    /\ IF HasNoAssignments(storage.classes, storage.classSubjects)
       THEN /\ result' = [result EXCEPT ![i] = FailureResult(NoAssignmentsMessage)]
            /\ pc' = [pc EXCEPT ![i] = "done"]
            /\ running' = 0
            /\ UNCHANGED << csIdx, conflicts, conflictsResolved >>
       ELSE /\ conflicts' = [conflicts EXCEPT ![i] = << >>]
            /\ conflictsResolved' = [conflictsResolved EXCEPT ![i] = 0]
            /\ csIdx' = [csIdx EXCEPT ![i] = 1]
            /\ pc' = [pc EXCEPT ![i] = "assign"]
            /\ running' = i
            /\ UNCHANGED result
    /\ UNCHANGED << storage, options, suitableSlots, slotIdx, log, thrown >>

\* the head of the for-of over classSubjects: the loop ends and the result is
\* returned, or the assignment is skipped, or findSuitableTimeSlots is called
\* and waits for storage.getSubjectTeachers
NextAssignment(i) ==
    /\ pc[i] = "assign"
    /\ running = i
    /\ IF csIdx[i] > Len(classSubjects)
       THEN /\ result' = [result EXCEPT ![i] = SuccessResult(i)]
            /\ pc' = [pc EXCEPT ![i] = "done"]
            /\ running' = 0
            /\ UNCHANGED csIdx
       ELSE IF \/ FindIdx(subjects, CurClassSubject(i).subjectId) = 0
               \/ FindIdx(classes, CurClassSubject(i).classId) = 0
       THEN /\ csIdx' = [csIdx EXCEPT ![i] = @ + 1]
            /\ UNCHANGED << result, pc, running >>
       ELSE /\ pc' = [pc EXCEPT ![i] = "findSlots"]
            /\ running' = 0
            /\ UNCHANGED << result, csIdx >>
    /\ UNCHANGED << storage, engineVars, options, suitableSlots, slotIdx, conflicts,
                    conflictsResolved, log, thrown >>
    /\ UNCHANGED loadedTeacherSubjects

\* storage.getSubjectTeachers resolves: the slots are found and a shortfall
\* is recorded
FindSlots(i) ==
    /\ pc[i] = "findSlots"
    /\ running = 0
    /\ LET found == findSuitableTimeSlots(CurClassSubject(i), PeriodsNeeded(i), options[i])
       IN /\ suitableSlots' = [suitableSlots EXCEPT ![i] = found]
          /\ conflicts' = [conflicts EXCEPT ![i] =
                WithShortfall(@, found, PeriodsNeeded(i), CurSubject(i), CurClass(i))]
          /\ log' = [log EXCEPT ![i] = Append(@, Event("slots", csIdx[i], Len(found), NoneEntry))]
    /\ slotIdx' = [slotIdx EXCEPT ![i] = 1]
    /\ pc' = [pc EXCEPT ![i] = "slot"]
    /\ running' = i
    /\ UNCHANGED << storage, engineVars, options, csIdx, conflictsResolved, result,
                    thrown >>
    /\ UNCHANGED loadedTeacherSubjects

\* one pass of the slot loop up to its end or to the await of resolveConflicts
AssignSlot(i) ==
    /\ pc[i] = "slot"
    /\ running = i
    /\ IF slotIdx[i] > SlotLimit(i)
       THEN /\ csIdx' = [csIdx EXCEPT ![i] = @ + 1]
            /\ pc' = [pc EXCEPT ![i] = "assign"]
            /\ UNCHANGED << generatedEntries, teacherWorkloads, slotIdx, log, thrown, running >>
       ELSE LET entry == BuildEntry(CurClassSubject(i), CurSlot(i))
            IN IF NeedsResolve(entry, options[i])
               THEN /\ pc' = [pc EXCEPT ![i] = "resolve"]
                    /\ running' = 0
                    /\ UNCHANGED << generatedEntries, teacherWorkloads, slotIdx, csIdx,
                                    log >>
               ELSE /\ generatedEntries' = Append(generatedEntries, entry)
                    /\ log' = [log EXCEPT ![i] = Append(@, Event("direct", csIdx[i], slotIdx[i], entry))]
                    /\ teacherWorkloads' =
                          updateTeacherWorkload(teacherWorkloads, entry.teacherId,
                                                CurSlot(i).timePeriod.dayOfWeek)
                    /\ slotIdx' = [slotIdx EXCEPT ![i] = @ + 1]
                    /\ UNCHANGED << pc, csIdx, running >>
    /\ UNCHANGED << storage, classes, subjects, teachers, rooms, timePeriods, classSubjects,
                    constraints, options, suitableSlots, conflicts, conflictsResolved, result,
                    thrown >>
    /\ UNCHANGED loadedTeacherSubjects

\* resolveConflicts resumes after storage.getSubjectTeachers and returns; the
\* rest of the pass of the slot loop
Resolve(i) ==
    /\ pc[i] = "resolve"
    /\ running = 0
    /\ LET entry == BuildEntry(CurClassSubject(i), CurSlot(i))
           resolved == resolveConflicts(entry)
       IN /\ IF resolved.found /\ validateConstraints(resolved.entry, options[i])
             THEN /\ generatedEntries' = Append(generatedEntries, resolved.entry)
                  /\ log' = [log EXCEPT ![i] =
                        Append(@, Event("resolved", csIdx[i], slotIdx[i], resolved.entry))]
                  /\ conflictsResolved' = [conflictsResolved EXCEPT ![i] = @ + 1]
                  /\ UNCHANGED conflicts
             ELSE /\ conflicts' = [conflicts EXCEPT ![i] =
                        Append(@, UnresolvableMessage(CurSubject(i), CurClass(i),
                                                      CurSlot(i).timePeriod))]
                  /\ log' = [log EXCEPT ![i] =
                        Append(@, Event("unresolved", csIdx[i], slotIdx[i], entry))]
                  /\ UNCHANGED << generatedEntries, conflictsResolved >>
          /\ teacherWorkloads' =
                updateTeacherWorkload(teacherWorkloads, entry.teacherId,
                                      CurSlot(i).timePeriod.dayOfWeek)
    /\ slotIdx' = [slotIdx EXCEPT ![i] = @ + 1]
    /\ pc' = [pc EXCEPT ![i] = "slot"]
    /\ running' = i
    /\ UNCHANGED << storage, classes, subjects, teachers, rooms, timePeriods, classSubjects,
                    constraints, options, csIdx, suitableSlots, result, thrown >>
    /\ UNCHANGED loadedTeacherSubjects

\* a storage call rejects: the catch block returns the failure result
StorageThrows(i) ==
    /\ pc[i] \in {"load", "findSlots", "resolve"}
    /\ running = 0
    /\ result' = [result EXCEPT ![i] = FailureResult(StorageError)]
    /\ thrown' = [thrown EXCEPT ![i] = TRUE]
    /\ pc' = [pc EXCEPT ![i] = "done"]
    /\ UNCHANGED << storage, engineVars, options, csIdx, suitableSlots, slotIdx,
                    conflicts, conflictsResolved, log, running >>
    /\ UNCHANGED loadedTeacherSubjects

\* a run is waiting for storage.getSubjectTeachers and the stored
\* teacher-subject rows are still those of its load: the moment at which the
\* requests below are let in, once per run
RunAwaitsTeachers ==
    /\ running = 0
    /\ \E i \in Invs :
          /\ pc[i] \in {"findSlots", "resolve"}
          /\ storage.teacherSubjects = loadedTeacherSubjects[i]

\* POST /api/teacher-subjects from another client: storage.assignTeacherToSubject
\* inserts the row
AssignTeacherToSubject(t, s) ==
    /\ RunAwaitsTeachers
    /\ \A k \in DOMAIN storage.teacherSubjects : storage.teacherSubjects[k] # TS(t, s)
    /\ storage' = [storage EXCEPT !.teacherSubjects = Append(@, TS(t, s))]
    /\ UNCHANGED << engineVars, localVars, running >>

\* DELETE /api/teacher-subjects/:id from another client:
\* storage.deleteTeacherSubject removes the row
DeleteTeacherSubject(k) ==
    /\ RunAwaitsTeachers
    /\ k \in DOMAIN storage.teacherSubjects
    /\ storage' = [storage EXCEPT !.teacherSubjects =
                      SubSeq(@, 1, k - 1) \o SubSeq(@, k + 1, Len(@))]
    /\ UNCHANGED << engineVars, localVars, running >>

\* ------------------------------------------- the generate-schedule handler
\* a delete of every stored entry, generated or not
clearWholeTimetable(stored) == << >>

\* db.delete(timetableEntries).where(eq(timetableEntries.isGenerated, true))
clearGeneratedTimetable(stored) == SelectSeq(stored, LAMBDA e : ~e.isGenerated)

\* the stored rows after createTimetableEntry for each of the entries in turn
createTimetableEntries(stored, entries) == stored \o entries

\* the settings row, if there is one, gets lastGenerated = new Date(), a time
\* later than the one stored
updateScheduleGenerated(settings) ==
    [k \in DOMAIN settings |->
        IF k = 1 THEN [settings[k] EXCEPT !.lastGenerated = @ + 1] ELSE settings[k]]

\* the request arrives: the handler runs to the await of clearGeneratedTimetable
ReceiveRequest(i) ==
    /\ pc[i] = "idle"
    /\ running = 0
    /\ pc' = [pc EXCEPT ![i] = "clear"]
    /\ UNCHANGED << storage, engineVars, options, csIdx, suitableSlots, slotIdx,
                    conflicts, conflictsResolved, result, log, thrown,
                    loadedTeacherSubjects, running >>

\* clearGeneratedTimetable resolves; generateSchedule is called and runs to the
\* await of loadData
ClearGenerated(i) ==
    /\ pc[i] = "clear"
    /\ running = 0
    /\ storage' = [storage EXCEPT !.timetableEntries = clearGeneratedTimetable(@)]
    /\ pc' = [pc EXCEPT ![i] = "load"]
    /\ UNCHANGED << engineVars, options, csIdx, suitableSlots, slotIdx,
                    conflicts, conflictsResolved, result, log, thrown,
                    loadedTeacherSubjects, running >>

\* generateSchedule has returned: on success the entries are stored one by one
\* and the settings are stamped, then the response is sent; the storage calls
\* of the loop are the request's only steps here, so they are taken together
SaveResult(i) ==
    /\ pc[i] = "done"
    /\ running = 0
    /\ IF result[i].success
       THEN storage' = [storage EXCEPT
                !.timetableEntries = createTimetableEntries(@, result[i].timetableEntries),
                !.scheduleSettings = updateScheduleGenerated(@)]
       ELSE UNCHANGED storage
    /\ pc' = [pc EXCEPT ![i] = "responded"]
    /\ UNCHANGED << engineVars, options, csIdx, suitableSlots, slotIdx,
                    conflicts, conflictsResolved, result, log, thrown,
                    loadedTeacherSubjects, running >>

\* a storage call of the handler rejects and the catch block answers 500:
\* clearGeneratedTimetable, or createTimetableEntry after n entries were
\* stored, or updateScheduleGenerated after all of them were
HandlerStorageThrows(i) ==
    /\ running = 0
    /\ \/ /\ pc[i] = "clear"
          /\ UNCHANGED storage
       \/ /\ pc[i] = "done"
          /\ result[i].success
          /\ \E n \in 0..Len(result[i].timetableEntries) :
                storage' = [storage EXCEPT !.timetableEntries =
                    createTimetableEntries(@, SubSeq(result[i].timetableEntries, 1, n))]
    /\ thrown' = [thrown EXCEPT ![i] = TRUE]
    /\ pc' = [pc EXCEPT ![i] = "responded"]
    /\ UNCHANGED << engineVars, options, csIdx, suitableSlots, slotIdx,
                    conflicts, conflictsResolved, result, log,
                    loadedTeacherSubjects, running >>

\* ------------------------------------------------------- specifications
InitEngine ==
    /\ classes = << >> /\ subjects = << >> /\ teachers = << >> /\ rooms = << >>
    /\ timePeriods = << >> /\ classSubjects = << >> /\ constraints = << >>
    /\ teacherWorkloads = initializeWorkloadTracking(<< >>)
    /\ generatedEntries = << >>

InitLocals ==
    /\ csIdx = [i \in Invs |-> 0]
    /\ suitableSlots = [i \in Invs |-> << >>]
    /\ slotIdx = [i \in Invs |-> 0]
    /\ conflicts = [i \in Invs |-> << >>]
    /\ conflictsResolved = [i \in Invs |-> 0]
    /\ result = [i \in Invs |-> EmptyResult]
    /\ log = [i \in Invs |-> << >>]
    /\ thrown = [i \in Invs |-> FALSE]
    /\ loadedTeacherSubjects = [i \in Invs |-> << >>]
    /\ running = 0

\* one request on a freshly constructed engine
Init ==
    /\ storage \in Catalogs
    /\ \E o \in OptionSet : options = [i \in Invs |-> o]
    /\ pc = [i \in Invs |-> IF i = 1 THEN "idle" ELSE "off"]
    /\ InitEngine
    /\ InitLocals

Next ==
    \E i \in Invs :
        \/ Call(i)
        \/ LoadData(i)
        \/ NextAssignment(i)
        \/ FindSlots(i)
        \/ AssignSlot(i)
        \/ Resolve(i)
        \/ StorageThrows(i)

Spec == Init /\ [][Next]_vars

\* two requests on the exported engine, free to overlap: the catalogs in which
\* both rooms can be used, both teachers are free all week and teacher 1 may
\* teach twice a day
ConcCatalogs ==
    { c \in Catalogs :
        /\ c.rooms = << RoomRow(1, TRUE), RoomRow(2, TRUE) >>
        /\ c.teachers[2].availability = NoAvailability
        /\ c.teachers[1].maxClassesPerDay = 2 }

InitConc ==
    /\ storage \in ConcCatalogs
    /\ \E m \in BOOLEAN : options = [i \in Invs |-> Options(m, FALSE)]
    /\ pc = [i \in Invs |-> "idle"]
    /\ InitEngine
    /\ InitLocals

SpecConc == InitConc /\ [][Next]_vars

\* one request on a catalog short of staff and rooms: one teacher, teacher 1 or
\* teacher 2, teaches every subject, and one of the two rooms can be used
OneTeacherTables ==
    { << TS(1, 1), TS(1, 2) >>,
      << TS(2, 1), TS(2, 2) >> }

ScarceCatalogs ==
    { [c EXCEPT !.teacherSubjects = ts] :
        c \in { d \in Catalogs :
                  /\ d.teacherSubjects = << TS(1, 1), TS(1, 2) >>
                  /\ \E k \in DOMAIN d.rooms : ~d.rooms[k].isAvailable },
        ts \in OneTeacherTables }

InitScarce ==
    /\ storage \in ScarceCatalogs
    /\ \E o \in OptionSet : options = [i \in Invs |-> o]
    /\ pc = [i \in Invs |-> IF i = 1 THEN "idle" ELSE "off"]
    /\ InitEngine
    /\ InitLocals

SpecScarce == InitScarce /\ [][Next]_vars

\* two requests one after the other on the exported engine, the second with
\* the options of the first or with other values of optimizeTeacherWorkload and
\* minimizeRoomChanges: the catalogs in which both rooms can be used, teacher 1
\* is capped at one class a day, teacher 2 is free all week and both teach
\* every subject
SeqCatalogs ==
    { c \in Catalogs :
        /\ c.rooms = << RoomRow(1, TRUE), RoomRow(2, TRUE) >>
        /\ c.teachers[1].maxClassesPerDay = 1
        /\ c.teachers[2].availability = NoAvailability
        /\ Len(c.teacherSubjects) > Len(c.subjects) }

InitSeq ==
    /\ storage \in SeqCatalogs
    /\ \E m, w, r \in BOOLEAN :
          options = [i \in Invs |->
                        IF i = 1 THEN Options(m, FALSE)
                        ELSE [Options(m, FALSE) EXCEPT !.optimizeTeacherWorkload = w,
                                                       !.minimizeRoomChanges = r]]
    /\ pc = [i \in Invs |-> "idle"]
    /\ InitEngine
    /\ InitLocals

\* the request is handled once every earlier request has been answered
CallInTurn(i) ==
    /\ \A j \in Invs : j < i => pc[j] = "done"
    /\ Call(i)

NextSeq ==
    \E i \in Invs :
        \/ CallInTurn(i)
        \/ LoadData(i)
        \/ NextAssignment(i)
        \/ FindSlots(i)
        \/ AssignSlot(i)
        \/ Resolve(i)
        \/ StorageThrows(i)

SpecSeq == InitSeq /\ [][NextSeq]_vars

\* one generate-schedule request: teacher 1 capped at one class a day, both
\* rooms usable, teacher 2 free all week; the timetable table holds an entry
\* made by hand, an entry of an earlier generation, both or none, and the
\* settings row exists or not
ManualEntry ==
    [classId |-> 1, subjectId |-> 1, teacherId |-> 1, roomId |-> 1, timePeriodId |-> 4,
     weekNumber |-> WeekNumber, isGenerated |-> FALSE]

EarlierEntry ==
    [classId |-> 2, subjectId |-> 2, teacherId |-> 2, roomId |-> 2, timePeriodId |-> 1,
     weekNumber |-> WeekNumber, isGenerated |-> TRUE]

StoredTimetables ==
    { << >>, << ManualEntry >>, << EarlierEntry >>, << EarlierEntry, ManualEntry >> }

StoredSettings == { << >>, << [lastGenerated |-> 0] >> }

HandlerCatalogs ==
    { [c EXCEPT !.timetableEntries = tt, !.scheduleSettings = ss] :
        c \in { d \in Catalogs :
                  /\ d.rooms = << RoomRow(1, TRUE), RoomRow(2, TRUE) >>
                  /\ d.teachers[1].maxClassesPerDay = 1
                  /\ d.teachers[2].availability = NoAvailability },
        tt \in StoredTimetables, ss \in StoredSettings }

InitHandler ==
    /\ storage \in HandlerCatalogs
    /\ options = [i \in Invs |-> Options(FALSE, TRUE)]
    /\ pc = [i \in Invs |-> IF i = 1 THEN "idle" ELSE "off"]
    /\ InitEngine
    /\ InitLocals

NextHandler ==
    \E i \in Invs :
        \/ ReceiveRequest(i)
        \/ ClearGenerated(i)
        \/ LoadData(i)
        \/ NextAssignment(i)
        \/ FindSlots(i)
        \/ AssignSlot(i)
        \/ Resolve(i)
        \/ StorageThrows(i)
        \/ SaveResult(i)
        \/ HandlerStorageThrows(i)

SpecHandler == InitHandler /\ [][NextHandler]_vars

\* one request, during which other clients edit the stored teacher-subject
\* rows: the catalogs in which both rooms can be used and teacher 2 is free all
\* week
EditCatalogs ==
    { c \in Catalogs :
        /\ c.rooms = << RoomRow(1, TRUE), RoomRow(2, TRUE) >>
        /\ c.teachers[2].availability = NoAvailability }

InitEdit ==
    /\ storage \in EditCatalogs
    /\ \E m \in BOOLEAN : options = [i \in Invs |-> Options(m, FALSE)]
    /\ pc = [i \in Invs |-> IF i = 1 THEN "idle" ELSE "off"]
    /\ InitEngine
    /\ InitLocals

NextEdit ==
    \/ Next
    \/ \E t \in {storage.teachers[k].id : k \in DOMAIN storage.teachers},
          s \in {storage.subjects[k].id : k \in DOMAIN storage.subjects} :
             AssignTeacherToSubject(t, s)
    \/ \E k \in DOMAIN storage.teacherSubjects : DeleteTeacherSubject(k)

SpecEdit == InitEdit /\ [][NextEdit]_vars

\* one request on a catalog with one assignment more than MaxAssign: one-hour
\* subjects, both rooms usable, teacher 1 capped at one class a day, teacher 2
\* free all week, and the stored periods or the first of them alone
LongCatalogs ==
    { [c EXCEPT !.classSubjects = cs, !.timePeriods = tp] :
        c \in { d \in Catalogs :
                  /\ d.classSubjects = << >>
                  /\ d.subjects = SubjectRows(1)
                  /\ d.rooms = << RoomRow(1, TRUE), RoomRow(2, TRUE) >>
                  /\ d.teachers[1].maxClassesPerDay = 1
                  /\ d.teachers[2].availability = NoAvailability },
        cs \in [1..(MaxAssign + 1) -> ClassSubjectRows],
        tp \in { StoredPeriods, SubSeq(StoredPeriods, 1, 1) } }

InitLong ==
    /\ storage \in LongCatalogs
    /\ options = [i \in Invs |-> Options(FALSE, FALSE)]
    /\ pc = [i \in Invs |-> IF i = 1 THEN "idle" ELSE "off"]
    /\ InitEngine
    /\ InitLocals

SpecLong == InitLong /\ [][Next]_vars

\* ================================================================ claims
\* invocation i has returned a successful result
Returned(i) == pc[i] = "done" /\ result[i].success

PeriodOfEntry(entry) == storage.timePeriods[FindIdx(storage.timePeriods, entry.timePeriodId)]

\* number of entries of the sequence naming the teacher, and those on one day
TeacherTotal(entries, teacherId) ==
    Cardinality({k \in DOMAIN entries : entries[k].teacherId = teacherId})

TeacherOnDay(entries, teacherId, day) ==
    Cardinality({k \in DOMAIN entries :
                    /\ entries[k].teacherId = teacherId
                    /\ PeriodOfEntry(entries[k]).dayOfWeek = day})

\* C1: in the entries returned by a successful run no two distinct entries
\* have the same teacherId and the same timePeriodId
C1_NoTeacherDoubleBooking ==
    \A i \in Invs : Returned(i) =>
        LET e == result[i].timetableEntries
        IN \A a, b \in DOMAIN e :
              a # b => ~(e[a].teacherId = e[b].teacherId /\ e[a].timePeriodId = e[b].timePeriodId)

\* C2: in the entries returned by a successful run no two distinct entries that
\* both have a room have the same roomId and the same timePeriodId
C2_NoRoomDoubleBooking ==
    \A i \in Invs : Returned(i) =>
        LET e == result[i].timetableEntries
        IN \A a, b \in DOMAIN e :
              (a # b /\ e[a].roomId # Null /\ e[b].roomId # Null)
                 => ~(e[a].roomId = e[b].roomId /\ e[a].timePeriodId = e[b].timePeriodId)

\* C3: in the entries returned by a successful run no two distinct entries of
\* the same class have the same timePeriodId
C3_NoClassDoubleBooking ==
    \A i \in Invs : Returned(i) =>
        LET e == result[i].timetableEntries
        IN \A a, b \in DOMAIN e :
              a # b => ~(e[a].classId = e[b].classId /\ e[a].timePeriodId = e[b].timePeriodId)

\* C4: in the entries returned by a successful run every teacher has at most
\* maxClassesPerDay entries on any one day and at most maxClassesPerWeek entries
C4_WorkloadCapsRespected ==
    \A i \in Invs : Returned(i) =>
        \A k \in DOMAIN storage.teachers :
            LET t == storage.teachers[k]
                e == result[i].timetableEntries
            IN /\ \A d \in Days : TeacherOnDay(e, t.id, d) <= t.maxClassesPerDay
               /\ TeacherTotal(e, t.id) <= t.maxClassesPerWeek

\* ---- history helpers
IsCommit(ev) == ev.kind \in {"direct", "resolved"}
IsOutcome(ev) == ev.kind \in {"direct", "resolved", "unresolved"}

\* entries invocation i pushed for assignment k, and slots it tried for it
CommitsFor(i, k) ==
    Cardinality({p \in DOMAIN log[i] : log[i][p].cs = k /\ IsCommit(log[i][p])})

OutcomesFor(i, k) ==
    Cardinality({p \in DOMAIN log[i] : log[i][p].cs = k /\ IsOutcome(log[i][p])})

\* the assignment's class and subject are in the loaded catalog
InCatalog(k) ==
    /\ FindIdx(subjects, classSubjects[k].subjectId) # 0
    /\ FindIdx(classes, classSubjects[k].classId) # 0

SubjectOf(k) == subjects[FindIdx(subjects, classSubjects[k].subjectId)]
ClassOf(k) == classes[FindIdx(classes, classSubjects[k].classId)]

\* C5: a run commits at most weeklyHours entries for an assignment, and the
\* Slot Finder returns at most periodsNeeded slots
C5_AtMostWeeklyHours ==
    \A i \in Invs :
        /\ \A k \in DOMAIN classSubjects :
              InCatalog(k) => CommitsFor(i, k) <= SubjectOf(k).weeklyHours
        /\ \A p \in DOMAIN log[i] :
              log[i][p].kind = "slots" => log[i][p].n <= SubjectOf(log[i][p].cs).weeklyHours
        /\ pc[i] \in {"slot", "resolve"} => Len(suitableSlots[i]) <= PeriodsNeeded(i)

\* an assignment needing MaxHours periods got all of them, with periods to spare
C5_Witness ==
    /\ Returned(1)
    /\ \E k \in DOMAIN classSubjects :
          /\ SubjectOf(k).weeklyHours = MaxHours
          /\ CommitsFor(1, k) = MaxHours
          /\ Len(SelectSeq(timePeriods, LAMBDA tp : ~tp.isBreak)) > MaxHours

\* C6: an assignment (class and subject in the catalog) that got fewer entries
\* than weeklyHours has a message naming its subject and class in the conflicts
\* list, which is the list a successful run returns
C6_ShortfallHasMessage ==
    \A i \in Invs :
        /\ \A k \in DOMAIN classSubjects :
              (k < csIdx[i] /\ InCatalog(k) /\ CommitsFor(i, k) < SubjectOf(k).weeklyHours)
                 => \E m \in DOMAIN conflicts[i] :
                        /\ conflicts[i][m].subject = SubjectOf(k).name
                        /\ conflicts[i][m].class = ClassOf(k).name
        /\ Returned(i) =>
              /\ result[i].conflicts = conflicts[i]
              /\ csIdx[i] = Len(classSubjects) + 1

\* a run returned with a shortfall message and an unresolvable-conflict message
C6_Witness ==
    /\ Returned(1)
    /\ \E k \in DOMAIN classSubjects : CommitsFor(1, k) < SubjectOf(k).weeklyHours
    /\ \E m \in DOMAIN result[1].conflicts : result[1].conflicts[m].kind = "shortfall"
    /\ \E m \in DOMAIN result[1].conflicts : result[1].conflicts[m].kind = "unresolvable"

ZeroStats == [totalClasses |-> 0, totalEntries |-> 0, conflictsResolved |-> 0]

\* C7: with zero class-subject assignments the run returns success=false, no
\* entries, zero stats, no conflicts and a non-empty errors list
C7_NoAssignmentsFails ==
    \A i \in Invs :
        (pc[i] = "done" /\ Len(storage.classSubjects) = 0) =>
            /\ ~result[i].success
            /\ result[i].timetableEntries = << >>
            /\ result[i].stats = ZeroStats
            /\ result[i].conflicts = << >>
            /\ Len(result[i].errors) > 0

\* the run came back from the check for zero assignments
C7_Witness ==
    /\ pc[1] = "done"
    /\ ~thrown[1]
    /\ Len(storage.classSubjects) = 0
    /\ result[1].errors = << NoAssignmentsMessage >>

\* C8: a run in which a storage call failed returns success=false, no entries,
\* zero stats and the error text; nothing pushed before the failure is returned
C8_FailureExposesNothing ==
    \A i \in Invs :
        thrown[i] =>
            /\ pc[i] = "done"
            /\ ~result[i].success
            /\ result[i].timetableEntries = << >>
            /\ result[i].stats = ZeroStats
            /\ result[i].errors = << StorageError >>
            /\ \A p \in DOMAIN log[i] :
                  IsCommit(log[i][p]) =>
                     ~ \E q \in DOMAIN result[i].timetableEntries :
                           result[i].timetableEntries[q] = log[i][p].entry

\* the lookup of a later assignment failed after an earlier one pushed entries
C8_Witness ==
    /\ thrown[1]
    /\ csIdx[1] > 1
    /\ generatedEntries # << >>
    /\ \E p \in DOMAIN log[1] : IsCommit(log[1][p])

\* C9: a run with at least one assignment in which no storage call failed
\* returns success=true whatever its conflicts list holds, and it has then tried
\* every slot of every assignment, also those behind an unresolved slot
C9_UnresolvedIsNotFatal ==
    \A i \in Invs :
        /\ (pc[i] = "done" /\ ~thrown[i] /\ Len(storage.classSubjects) > 0) => result[i].success
        /\ Returned(i) =>
              \A k \in DOMAIN classSubjects :
                  InCatalog(k) =>
                     \E p \in DOMAIN log[i] :
                        /\ log[i][p].kind = "slots" /\ log[i][p].cs = k
                        /\ OutcomesFor(i, k) = log[i][p].n
                        /\ \A n \in 1..log[i][p].n :
                              \E q \in DOMAIN log[i] :
                                 q > p /\ IsOutcome(log[i][q]) /\ log[i][q].cs = k /\ log[i][q].n = n

\* a successful run that left a slot unresolved and pushed an entry afterwards
C9_Witness ==
    /\ Returned(1)
    /\ result[1].conflicts # << >>
    /\ \E p, q \in DOMAIN log[1] :
          p < q /\ log[1][p].kind = "unresolved" /\ IsCommit(log[1][q])

\* the entries invocation i pushed, in the order it pushed them
CommitEvents(i) == SelectSeq(log[i], IsCommit)
OwnEntries(i) == [k \in DOMAIN CommitEvents(i) |-> CommitEvents(i)[k].entry]

\* C10: two invocations that overlap on the exported engine do not interfere:
\* each returns the entries it pushed itself, none pushed by the other and none
\* lost to the other's reset, and with the same options on the same catalog
\* both return the result of a run alone, hence the same result
C10_ConcurrentRunsDoNotInterfere ==
    \A i \in Invs : Returned(i) =>
        /\ result[i].timetableEntries = OwnEntries(i)
        /\ result[i].stats.totalEntries = Len(OwnEntries(i))
        /\ \A j \in Invs :
              (Returned(j) /\ options[j] = options[i]) => result[j] = result[i]

\* C11: no entry returned by a run has the timePeriodId of a break period,
\* whatever the catalog and the options, entries pushed after the Conflict
\* Resolver included; nor does any entry held by the engine
C11_NoBreakPeriodScheduled ==
    /\ \A k \in DOMAIN generatedEntries : ~PeriodOfEntry(generatedEntries[k]).isBreak
    /\ \A i \in Invs : \A k \in DOMAIN result[i].timetableEntries :
          ~PeriodOfEntry(result[i].timetableEntries[k]).isBreak
    /\ \A i \in Invs : \A p \in DOMAIN log[i] :
          IsCommit(log[i][p]) => ~PeriodOfEntry(log[i][p].entry).isBreak

\* a run scanning by start hour returned entries, one of them from the resolver,
\* all later in the day than a break of the catalog
C11_Witness ==
    /\ Returned(1)
    /\ options[1].prioritizeMorningClasses
    /\ result[1].timetableEntries # << >>
    /\ \E p \in DOMAIN log[1] : log[1][p].kind = "resolved"
    /\ \E b \in DOMAIN timePeriods :
          /\ timePeriods[b].isBreak
          /\ \A k \in DOMAIN result[1].timetableEntries :
                ParseHour(timePeriods[b].startTime)
                   < ParseHour(PeriodOfEntry(result[1].timetableEntries[k]).startTime)

\* the run of invocation i enforces hard constraints and has loaded an active
\* hard constraint of scope teacher on the teacher
HardTeacherConstraint(i, teacherId) ==
    /\ options[i].enforceHardConstraints
    /\ \E k \in DOMAIN constraints :
          /\ constraints[k].isActive
          /\ constraints[k].type = "hard"
          /\ constraints[k].scope = "teacher"
          /\ constraints[k].targetId = teacherId

\* C12 as stated: with enforceHardConstraints and an active hard constraint of
\* scope teacher on teacher 1, no entry of the result names teacher 1
C12_HardTeacherConstraintExcludesTeacher ==
    \A i \in Invs :
        (Returned(i) /\ HardTeacherConstraint(i, 1)) =>
            \A k \in DOMAIN result[i].timetableEntries :
                result[i].timetableEntries[k].teacherId # 1

\* C12 as amended: with enforceHardConstraints and an active hard constraint of
\* scope teacher on teacher 1, the Constraint Validator judges every candidate
\* entry valid, those naming teacher 1 included: an entry goes to the Conflict
\* Resolver only for a teacher, room or class conflict, the substituted entry
\* is valid too, and every other candidate is pushed as built
C12_HardTeacherConstraintBlocksNothing ==
    \A i \in Invs :
        HardTeacherConstraint(i, 1) =>
            /\ (pc[i] = "slot" /\ slotIdx[i] <= SlotLimit(i)) =>
                   validateConstraints(BuildEntry(CurClassSubject(i), CurSlot(i)), options[i])
            /\ pc[i] = "resolve" =>
                   LET entry == BuildEntry(CurClassSubject(i), CurSlot(i))
                       c == checkConflicts(entry)
                   IN /\ validateConstraints(entry, options[i])
                      /\ c.teacherConflicts \/ c.roomConflicts \/ c.classConflicts
                      /\ resolveConflicts(entry).found =>
                            validateConstraints(resolveConflicts(entry).entry, options[i])
            /\ \A p \in DOMAIN log[i] :
                  log[i][p].kind = "unresolved" =>
                     \E q \in DOMAIN log[i] :
                        /\ q < p /\ IsCommit(log[i][q])
                        /\ log[i][q].entry.timePeriodId = log[i][p].entry.timePeriodId

\* under the constraint a run returned an entry naming teacher 1 that was
\* pushed as built, without the resolver
C12_Witness ==
    /\ Returned(1)
    /\ HardTeacherConstraint(1, 1)
    /\ \E p \in DOMAIN log[1] :
          /\ log[1][p].kind = "direct"
          /\ log[1][p].entry.teacherId = 1
          /\ \E k \in DOMAIN result[1].timetableEntries :
                result[1].timetableEntries[k] = log[1][p].entry

\* period a comes strictly before period b in the scan order of the options
ScansBefore(a, b, opts) ==
    IF opts.prioritizeMorningClasses
    THEN a.startTime[1] < b.startTime[1]
    ELSE a.orderIndex < b.orderIndex

\* some teacher eligible for the subject may be offered for the period now
Acceptable(tp, subjectId) ==
    LET eligible == getAvailableTeachers(subjectId)
    IN \E j \in DOMAIN eligible :
          /\ isTeacherAvailable(eligible[j], tp)
          /\ checkTeacherWorkloadConstraints(eligible[j], tp)

\* the slots just found for the assignment of invocation i
JustFound(i) == pc[i] = "slot" /\ slotIdx[i] = 1

\* C13: the slots the Slot Finder returns hold no break, are in ascending start
\* hour when prioritizeMorningClasses is set and in ascending orderIndex
\* otherwise, and no period that scans before a returned one, or any period
\* when fewer slots than needed came back, was passed over while a teacher
\* could be offered for it
C13_SlotsInScanOrder ==
    \A i \in Invs :
        JustFound(i) =>
            LET S == suitableSlots[i]
                opts == options[i]
                chosen == {S[a].timePeriodId : a \in DOMAIN S}
                skipped == {k \in DOMAIN timePeriods :
                               ~timePeriods[k].isBreak /\ timePeriods[k].id \notin chosen}
            IN /\ \A a \in DOMAIN S : ~S[a].timePeriod.isBreak
               /\ \A a, b \in DOMAIN S :
                     a < b => ~ScansBefore(S[b].timePeriod, S[a].timePeriod, opts)
               /\ \A k \in skipped : \A a \in DOMAIN S :
                     ScansBefore(timePeriods[k], S[a].timePeriod, opts)
                        => ~Acceptable(timePeriods[k], CurClassSubject(i).subjectId)
               /\ Len(S) < PeriodsNeeded(i) =>
                     \A k \in skipped :
                        ~Acceptable(timePeriods[k], CurClassSubject(i).subjectId)

\* scanning by start hour, the first slot is an earlier hour than a period of
\* lower orderIndex that a teacher could have been offered for
C13_Witness ==
    /\ JustFound(1)
    /\ options[1].prioritizeMorningClasses
    /\ suitableSlots[1] # << >>
    /\ \E k \in DOMAIN timePeriods :
          /\ ~timePeriods[k].isBreak
          /\ timePeriods[k].orderIndex < suitableSlots[1][1].timePeriod.orderIndex
          /\ suitableSlots[1][1].timePeriod.startTime[1] < timePeriods[k].startTime[1]
          /\ Acceptable(timePeriods[k], CurClassSubject(1).subjectId)

\* the stored rows of the teachers eligible for the subject, and the stored
\* rooms that can be used
EligibleRows(subjectId) ==
    SelectSeq(storage.teacherSubjects, LAMBDA ts : ts.subjectId = subjectId)

UsableRooms == {k \in DOMAIN storage.rooms : storage.rooms[k].isAvailable}

\* the stored periods that are no break and in which the teacher is available
QualifyingPeriods(teacher) ==
    {k \in DOMAIN storage.timePeriods :
        /\ ~storage.timePeriods[k].isBreak
        /\ isTeacherAvailable(teacher, storage.timePeriods[k])}

\* the stored catalog has exactly one assignment, without preferred teacher or
\* room, one teacher eligible for its subject, who is below both caps and
\* available in at least weeklyHours periods that are no break, and one room
\* that can be used
SoloCatalog ==
    /\ Len(storage.classSubjects) = 1
    /\ storage.classSubjects[1].teacherId = Null
    /\ storage.classSubjects[1].preferredRoomId = Null
    /\ FindIdx(storage.subjects, storage.classSubjects[1].subjectId) # 0
    /\ FindIdx(storage.classes, storage.classSubjects[1].classId) # 0
    /\ Len(EligibleRows(storage.classSubjects[1].subjectId)) = 1
    /\ FindIdx(storage.teachers, EligibleRows(storage.classSubjects[1].subjectId)[1].teacherId) # 0
    /\ Cardinality(UsableRooms) = 1
    /\ LET t == storage.teachers[FindIdx(storage.teachers,
                    EligibleRows(storage.classSubjects[1].subjectId)[1].teacherId)]
           h == storage.subjects[FindIdx(storage.subjects,
                    storage.classSubjects[1].subjectId)].weeklyHours
       IN /\ t.maxClassesPerDay > 0
          /\ t.maxClassesPerWeek > 0
          /\ Cardinality(QualifyingPeriods(t)) >= h

AtCap(teacher, day) ==
    \/ TeacherOnDay(generatedEntries, teacher.id, day)
          >= JsOr(teacher.maxClassesPerDay, DefaultMaxPerDay)
    \/ TeacherTotal(generatedEntries, teacher.id)
          >= JsOr(teacher.maxClassesPerWeek, DefaultMaxPerWeek)

\* C15: the Slot Finder offers no teacher for a period of a day on which the
\* entries committed for earlier assignments have the teacher at a cap; and
\* when the only teacher eligible for the subject is at a cap on the day of
\* every period, the assignment finds no slot and has a message naming its
\* subject and class
C15_CappedTeacherNotOffered ==
    \A i \in Invs :
        JustFound(i) =>
            LET S == suitableSlots[i]
                eligible == getAvailableTeachers(CurClassSubject(i).subjectId)
            IN /\ \A a \in DOMAIN S :
                     ~AtCap(teachers[FindIdx(teachers, S[a].teacherId)],
                            S[a].timePeriod.dayOfWeek)
               /\ (/\ Len(eligible) = 1
                   /\ \A k \in DOMAIN timePeriods :
                         AtCap(eligible[1], timePeriods[k].dayOfWeek))
                     => /\ S = << >>
                        /\ \E m \in DOMAIN conflicts[i] :
                              /\ conflicts[i][m].subject = CurSubject(i).name
                              /\ conflicts[i][m].class = CurClass(i).name

\* C16: the counters are zero for every stored teacher when the load of a run
\* completes, and a step of a run that appends no entry to the committed
\* entries, such as a slot iteration ending unresolved, leaves every counter
\* as it was
C16_CountersChangeOnlyOnCommit ==
    [][ /\ \A i \in Invs :
              (pc[i] = "load" /\ pc'[i] # "load" /\ ~thrown'[i]) =>
                  \A k \in DOMAIN storage.teachers :
                      /\ storage.teachers[k].id \in DOMAIN teacherWorkloads'
                      /\ teacherWorkloads'[storage.teachers[k].id].totalClasses = 0
                      /\ \A d \in Days :
                            teacherWorkloads'[storage.teachers[k].id].classesPerDay[d] = 0
        /\ ((\A i \in Invs : pc[i] # "load") /\ generatedEntries' = generatedEntries)
              => teacherWorkloads' = teacherWorkloads ]_vars

\* the teachers eligible for the subject by the rows stored at the load of the
\* run of invocation i
EligibleAtLoad(i, subjectId) ==
    LET rows  == SelectSeq(loadedTeacherSubjects[i], LAMBDA ts : ts.subjectId = subjectId)
        known == SelectSeq(rows, LAMBDA ts : FindIdx(teachers, ts.teacherId) # 0)
    IN [k \in DOMAIN known |-> teachers[FindIdx(teachers, known[k].teacherId)]]

\* C17: the teachers a run treats as eligible are those of the teacher-subject
\* rows stored at its load, whatever is stored later: the slots found for an
\* assignment are those found with the rows of the load, and every entry pushed
\* names the assignment's own teacher or a teacher eligible by those rows
C17_EligibilityFixedAtLoad ==
    \A i \in Invs :
        /\ JustFound(i) =>
              suitableSlots[i] =
                  ScanPeriods(SortedTimePeriods(options[i]), 1, << >>, CurClassSubject(i),
                              PeriodsNeeded(i),
                              EligibleAtLoad(i, CurClassSubject(i).subjectId))
        /\ \A p \in DOMAIN log[i] :
              IsCommit(log[i][p]) =>
                 \/ log[i][p].entry.teacherId = classSubjects[log[i][p].cs].teacherId
                 \/ \E j \in DOMAIN EligibleAtLoad(i, log[i][p].entry.subjectId) :
                        EligibleAtLoad(i, log[i][p].entry.subjectId)[j].id
                           = log[i][p].entry.teacherId

\* invocation i has returned and none of its storage calls failed
Completed(i) == pc[i] = "done" /\ ~thrown[i]

\* C18: two runs one after the other on the same stored catalog with the same
\* options, no storage call failing, return the same result: entries in the
\* same order, stats and conflict messages, whatever the first run left in the
\* engine's fields
C18_SequentialRunsAgree ==
    \A i, j \in Invs :
        (Completed(i) /\ Completed(j) /\ options[i] = options[j]) =>
            /\ result[i].success = result[j].success
            /\ result[i].timetableEntries = result[j].timetableEntries
            /\ result[i].stats = result[j].stats
            /\ result[i].conflicts = result[j].conflicts
            /\ result[i].errors = result[j].errors

\* the second run started on an engine holding the first run's entries and
\* counters, a teacher at a daily cap among them, and both returned entries
\* and the message of a slot left unresolved
C18_Witness ==
    /\ Returned(1) /\ Returned(2)
    /\ options[1] = options[2]
    /\ result[1].timetableEntries # << >>
    /\ result[1].conflicts # << >>
    /\ \E p \in DOMAIN log[2] : log[2][p].kind = "unresolved"
    /\ \E k \in DOMAIN teachers : \E d \in Days :
          TeacherOnDay(result[1].timetableEntries, teachers[k].id, d)
             >= teachers[k].maxClassesPerDay

\* the options agree but for optimizeTeacherWorkload and minimizeRoomChanges
SameButReserved(a, b) ==
    /\ a.prioritizeMorningClasses = b.prioritizeMorningClasses
    /\ a.enforceHardConstraints = b.enforceHardConstraints
    /\ a.respectSoftConstraints = b.respectSoftConstraints

\* C19: two runs on the same stored catalog whose options differ only in
\* optimizeTeacherWorkload and minimizeRoomChanges, no storage call failing,
\* return the same result
C19_ReservedFlagsAreNoOps ==
    \A i, j \in Invs :
        (Completed(i) /\ Completed(j) /\ SameButReserved(options[i], options[j])) =>
            result[i] = result[j]

\* both flags differ between the runs, two teachers are eligible, and both
\* runs returned entries
C19_Witness ==
    /\ Returned(1) /\ Returned(2)
    /\ options[1].optimizeTeacherWorkload # options[2].optimizeTeacherWorkload
    /\ options[1].minimizeRoomChanges # options[2].minimizeRoomChanges
    /\ result[2].timetableEntries # << >>
    /\ \E k \in DOMAIN classSubjects :
          Len(getAvailableTeachers(classSubjects[k].subjectId)) > 1

\* the stored timetable rows made by hand, and the generated ones
ManualRows(stored) == SelectSeq(stored, LAMBDA e : ~e.isGenerated)
GeneratedRows(stored) == SelectSeq(stored, LAMBDA e : e.isGenerated)

\* C20: in every step of a generate-schedule request: the engine is invoked
\* with no generated row left in the store; the rows made by hand stay as they
\* are; rows are added and the settings stamped only in answer to a result with
\* success=true, the rows being entries of that result in order; a result with
\* success=false is answered with the store untouched; and a success answered
\* without a storage failure stores all entries and stamps the settings row
\* with a later time
C20_HandlerStoresOnlyOnSuccess ==
    [][ /\ \A i \in Invs :
              (pc[i] # "load" /\ pc'[i] = "load") =>
                  GeneratedRows(storage'.timetableEntries) = << >>
        /\ ManualRows(storage'.timetableEntries) = ManualRows(storage.timetableEntries)
        /\ (\/ Len(storage'.timetableEntries) > Len(storage.timetableEntries)
            \/ storage'.scheduleSettings # storage.scheduleSettings)
              => \E i \in Invs :
                    /\ pc[i] = "done" /\ pc'[i] = "responded"
                    /\ result[i].success
                    /\ \E n \in 0..Len(result[i].timetableEntries) :
                          storage'.timetableEntries =
                              storage.timetableEntries
                                 \o SubSeq(result[i].timetableEntries, 1, n)
        /\ \A i \in Invs :
              (pc[i] = "done" /\ pc'[i] = "responded" /\ ~result[i].success) =>
                  storage' = storage
        /\ \A i \in Invs :
              (pc[i] = "done" /\ pc'[i] = "responded" /\ result[i].success /\ ~thrown'[i]) =>
                  /\ storage'.timetableEntries =
                         storage.timetableEntries \o result[i].timetableEntries
                  /\ \A k \in DOMAIN storage.scheduleSettings :
                        k = 1 => storage'.scheduleSettings[k].lastGenerated
                                    > storage.scheduleSettings[k].lastGenerated ]_vars

\* a successful request was answered: the row made by hand is still stored,
\* the generated rows are the entries of the result, none of them the entry of
\* the earlier generation, and the settings are stamped
C20_Witness ==
    /\ pc[1] = "responded"
    /\ result[1].success
    /\ ~thrown[1]
    /\ result[1].timetableEntries # << >>
    /\ ManualRows(storage.timetableEntries) = << ManualEntry >>
    /\ GeneratedRows(storage.timetableEntries) = result[1].timetableEntries
    /\ \A k \in DOMAIN storage.timetableEntries :
          storage.timetableEntries[k] # EarlierEntry
    /\ storage.scheduleSettings # << >>
    /\ storage.scheduleSettings[1].lastGenerated > 0

\* the room the Slot Finder is to choose for the assignment in the period: the
\* preferred room when it is flagged available and not booked in the period,
\* else the first room flagged available and not booked, Null when none
RoomToChoose(classSubject, timePeriod) ==
    LET pk   == FindIdx(rooms, classSubject.preferredRoomId)
        free == {k \in DOMAIN rooms :
                    rooms[k].isAvailable /\ isRoomAvailable(rooms[k], timePeriod)}
    IN IF classSubject.preferredRoomId # Null /\ pk # 0 /\ pk \in free
       THEN rooms[pk].id
       ELSE IF free = {} THEN Null ELSE rooms[Min(free)].id

\* C21: every slot the Slot Finder returns carries the room chosen that way,
\* and so no room whose isAvailable flag is false
C21_SlotRoomIsUsable ==
    \A i \in Invs :
        JustFound(i) =>
            \A a \in DOMAIN suitableSlots[i] :
                LET slot == suitableSlots[i][a]
                IN /\ slot.roomId = RoomToChoose(CurClassSubject(i), slot.timePeriod)
                   /\ slot.roomId # Null =>
                         rooms[FindIdx(rooms, slot.roomId)].isAvailable

\* one request on a staff whose second teacher's availability data varies:
\* none, one window, several windows, windows given to the minute, a day with
\* an empty list, windows on other days only; teacher 1 is capped at one class
\* a day, both rooms can be used, both teachers or teacher 2 alone teach
Window(sh, sm, eh, em) == [start |-> <<sh, sm>>, end |-> <<eh, em>>]

AvailabilityData ==
    { NoAvailability, MondayEarly }
    \cup { [isNull |-> FALSE, days |-> [d \in {"monday"} |-> w]] :
             w \in { << >>,
                     << Window(7, 0, 10, 0) >>,
                     << Window(9, 0, 10, 0), Window(8, 0, 9, 0) >>,
                     << Window(8, 30, 9, 0) >>,
                     << Window(8, 0, 9, 30) >> } }
    \cup { [isNull |-> FALSE, days |-> [d \in {"tuesday"} |-> << Window(8, 0, 9, 0) >>]],
           [isNull |-> FALSE,
            days   |-> [d \in {"monday", "tuesday"} |->
                          IF d = "monday" THEN << Window(8, 0, 10, 0) >>
                          ELSE << Window(7, 0, 8, 0) >>]] }

AvailCatalogs ==
    { [c EXCEPT !.teachers[2].availability = av, !.teacherSubjects = ts] :
        c \in SeqCatalogs,
        av \in AvailabilityData,
        ts \in { << TS(1, 1), TS(2, 1), TS(1, 2), TS(2, 2) >>,
                 << TS(2, 1), TS(2, 2) >> } }

InitAvail ==
    /\ storage \in AvailCatalogs
    /\ \E o \in OptionSet : options = [i \in Invs |-> o]
    /\ pc = [i \in Invs |-> IF i = 1 THEN "idle" ELSE "off"]
    /\ InitEngine
    /\ InitLocals

SpecAvail == InitAvail /\ [][Next]_vars

\* the availability data lists, for the period's day, a window that starts no
\* later than the period's start hour and ends no earlier than its end hour
WindowCovers(teacher, timePeriod) ==
    /\ timePeriod.dayOfWeek \in DOMAIN teacher.availability.days
    /\ \E k \in DOMAIN teacher.availability.days[timePeriod.dayOfWeek] :
          LET window == teacher.availability.days[timePeriod.dayOfWeek][k]
          IN /\ window.start[1] <= timePeriod.startTime[1]
             /\ window.end[1] >= timePeriod.endTime[1]

\* C22: for every loaded teacher and period, isTeacherAvailable holds exactly
\* when the teacher has no availability data or a window of the period's day
\* covers the period's hours; every slot the Slot Finder returns names such a
\* teacher
C22_AvailableIffWindowCovers ==
    /\ \A k \in DOMAIN teachers, p \in DOMAIN timePeriods :
          isTeacherAvailable(teachers[k], timePeriods[p])
            <=> \/ teachers[k].availability.isNull
                \/ WindowCovers(teachers[k], timePeriods[p])
    /\ \A i \in Invs :
          JustFound(i) =>
            \A a \in DOMAIN suitableSlots[i] :
                LET teacher == teachers[FindIdx(teachers, suitableSlots[i][a].teacherId)]
                IN \/ teacher.availability.isNull
                   \/ WindowCovers(teacher, suitableSlots[i][a].timePeriod)

\* the Slot Finder has offered a teacher with availability data for a period
\* a window covers, having passed over a period of the same day that no window
\* covers and a period of a day without windows
C22_Witness ==
    \E i \in Invs :
        /\ JustFound(i)
        /\ \E a \in DOMAIN suitableSlots[i] :
              LET teacher == teachers[FindIdx(teachers, suitableSlots[i][a].teacherId)]
                  tp      == suitableSlots[i][a].timePeriod
              IN /\ ~teacher.availability.isNull
                 /\ WindowCovers(teacher, tp)
                 /\ \E p \in DOMAIN timePeriods :
                       /\ timePeriods[p].dayOfWeek = tp.dayOfWeek
                       /\ ~timePeriods[p].isBreak
                       /\ ~isTeacherAvailable(teacher, timePeriods[p])
                 /\ \E p \in DOMAIN timePeriods :
                       /\ timePeriods[p].dayOfWeek \notin DOMAIN teacher.availability.days
                       /\ ~isTeacherAvailable(teacher, timePeriods[p])

\* some committed entry names the teacher, the class, the room in the period
TeacherBooked(teacherId, timePeriodId) ==
    \E k \in DOMAIN generatedEntries :
        /\ generatedEntries[k].teacherId = teacherId
        /\ generatedEntries[k].timePeriodId = timePeriodId

ClassBooked(classId, timePeriodId) ==
    \E k \in DOMAIN generatedEntries :
        /\ generatedEntries[k].classId = classId
        /\ generatedEntries[k].timePeriodId = timePeriodId

RoomBooked(roomId, timePeriodId) ==
    \E k \in DOMAIN generatedEntries :
        /\ generatedEntries[k].roomId = roomId
        /\ generatedEntries[k].timePeriodId = timePeriodId

\* the teachers eligible for the entry's subject, in eligibility order, that
\* differ from the tried teacher, are available in the period and give neither
\* a teacher conflict nor a class conflict
SubstituteTeachers(entry) ==
    SelectSeq(EligibleRows(entry.subjectId),
              LAMBDA ts :
                  /\ ts.teacherId # entry.teacherId
                  /\ FindIdx(teachers, ts.teacherId) # 0
                  /\ isTeacherAvailable(teachers[FindIdx(teachers, ts.teacherId)],
                                        PeriodOfEntry(entry))
                  /\ ~TeacherBooked(ts.teacherId, entry.timePeriodId)
                  /\ ~ClassBooked(entry.classId, entry.timePeriodId))

\* the other catalog rooms, in catalog order, flagged available and not booked
\* in the period
SubstituteRooms(entry) ==
    SelectSeq(rooms, LAMBDA room :
                         /\ room.id # entry.roomId
                         /\ room.isAvailable
                         /\ ~RoomBooked(room.id, entry.timePeriodId))

\* a step in which the Conflict Resolver returns for the entry of the slot
ResolverReturns(i) == pc[i] = "resolve" /\ pc'[i] = "slot"

\* C23: the Conflict Resolver returns the entry with the first substitute
\* teacher; when there is none and the entry has a room, the entry with the
\* first substitute room; otherwise none
C23_TeacherBeforeRoom ==
    [][\A i \in Invs :
          ResolverReturns(i) =>
            LET entry   == BuildEntry(CurClassSubject(i), CurSlot(i))
                outcome == log'[i][Len(log'[i])]
            IN IF SubstituteTeachers(entry) # << >>
               THEN /\ outcome.kind = "resolved"
                    /\ outcome.entry =
                          [entry EXCEPT !.teacherId = SubstituteTeachers(entry)[1].teacherId]
               ELSE IF entry.roomId # Null /\ SubstituteRooms(entry) # << >>
               THEN /\ outcome.kind = "resolved"
                    /\ outcome.entry =
                          [entry EXCEPT !.roomId = SubstituteRooms(entry)[1].id]
               ELSE outcome.kind = "unresolved"]_vars

\* the entry the orchestrator built for the slot it has just finished
LastTried(i) == BuildEntry(CurClassSubject(i), suitableSlots[i][slotIdx[i] - 1])

LastOutcome(i) == log[i][Len(log[i])]

\* the resolver has just substituted a room, every other eligible teacher
\* having been passed over
C23_Witness ==
    \E i \in Invs :
        /\ pc[i] = "slot" /\ slotIdx[i] > 1
        /\ LastOutcome(i).kind = "resolved"
        /\ LastOutcome(i).entry.teacherId = LastTried(i).teacherId
        /\ LastOutcome(i).entry.roomId # LastTried(i).roomId
        /\ \E k \in DOMAIN EligibleRows(LastTried(i).subjectId) :
              EligibleRows(LastTried(i).subjectId)[k].teacherId # LastTried(i).teacherId

\* two requests one after the other on a catalog with MaxAssign assignments,
\* the first with enforceHardConstraints and respectSoftConstraints off, the
\* second with any values of the two; between them a client may rewrite one
\* stored constraint (PUT /api/constraints/:id)
ConstraintRows ==
    { [type |-> "hard", scope |-> "room",    targetId |-> Null, isActive |-> TRUE],
      [type |-> "hard", scope |-> "subject", targetId |-> 2,    isActive |-> FALSE],
      [type |-> "soft", scope |-> "teacher", targetId |-> 2,    isActive |-> TRUE] }

RulesCatalogs == { c \in SeqCatalogs : Len(c.classSubjects) = MaxAssign }

InitRules ==
    /\ storage \in RulesCatalogs
    /\ \E h, s \in BOOLEAN :
          options = [i \in Invs |->
                        IF i = 1 THEN Options(FALSE, FALSE)
                        ELSE [Options(FALSE, h) EXCEPT !.respectSoftConstraints = s]]
    /\ pc = [i \in Invs |-> "idle"]
    /\ InitEngine
    /\ InitLocals

\* storage.updateConstraint: the row with the id takes the data sent
UpdateConstraint(k, row) ==
    /\ running = 0
    /\ pc[1] = "done" /\ pc[2] = "idle"
    /\ storage.constraints = StoredConstraints
    /\ storage' = [storage EXCEPT !.constraints[k] =
                      [id |-> @.id, type |-> row.type, scope |-> row.scope,
                       targetId |-> row.targetId, isActive |-> row.isActive]]
    /\ UNCHANGED << engineVars, localVars, running >>

\* the storage calls of the two runs succeed
NextRules ==
    \/ \E i \in Invs :
          \/ CallInTurn(i)
          \/ LoadData(i)
          \/ NextAssignment(i)
          \/ FindSlots(i)
          \/ AssignSlot(i)
          \/ Resolve(i)
    \/ \E k \in DOMAIN storage.constraints, row \in ConstraintRows : UpdateConstraint(k, row)

SpecRules == InitRules /\ [][NextRules]_vars

\* every combination of enforceHardConstraints and respectSoftConstraints
RuleOptions(opts) ==
    { [opts EXCEPT !.enforceHardConstraints = h, !.respectSoftConstraints = s] :
        h \in BOOLEAN, s \in BOOLEAN }

\* C24: the validator accepts the entry built for every slot, and the entry
\* the resolver returns for it, under the loaded constraints and any values of
\* enforceHardConstraints and respectSoftConstraints; two completed runs on
\* the same catalog that differ in the constraint set and in the two options
\* return the same result
C24_ValidatorNeverRejects ==
    /\ \A i \in Invs :
          (pc[i] = "resolve" \/ (pc[i] = "slot" /\ slotIdx[i] <= SlotLimit(i))) =>
             LET entry == BuildEntry(CurClassSubject(i), CurSlot(i))
             IN \A o \in RuleOptions(options[i]) :
                   /\ validateConstraints(entry, o)
                   /\ resolveConflicts(entry).found =>
                         validateConstraints(resolveConflicts(entry).entry, o)
    /\ (Completed(1) /\ Completed(2)) => result[1] = result[2]

\* the second run has completed under a rewritten constraint set and with
\* both options on, having committed entries that constraints target
C24_Witness ==
    /\ Completed(1) /\ Completed(2)
    /\ storage.constraints # StoredConstraints
    /\ options[2].enforceHardConstraints /\ options[2].respectSoftConstraints
    /\ \E p \in DOMAIN log[2], k \in DOMAIN constraints :
          /\ log[2][p].kind = "resolved"
          /\ constraints[k].isActive /\ constraints[k].type = "hard"
          /\ constraints[k].scope = "teacher"
          /\ constraints[k].targetId = log[2][p].entry.teacherId
    /\ \E k \in DOMAIN constraints :
          /\ constraints[k].isActive /\ constraints[k].type = "hard"
          /\ constraints[k].targetId = Null

IsPrefix(a, b) == Len(a) <= Len(b) /\ \A k \in DOMAIN a : a[k] = b[k]

\* run i is between its load and its return
InLoop(i) == pc[i] \in {"assign", "findSlots", "slot", "resolve"}

\* the commits of run i were made assignment by assignment, slot by slot
CommittedInProcessingOrder(i) ==
    \A p, q \in DOMAIN CommitEvents(i) :
        p < q =>
            \/ CommitEvents(i)[p].cs < CommitEvents(i)[q].cs
            \/ /\ CommitEvents(i)[p].cs = CommitEvents(i)[q].cs
               /\ CommitEvents(i)[p].n < CommitEvents(i)[q].n

\* C25: in a run on its own every step after the load keeps the committed
\* entries as a prefix of the list, adding at most one at the end; the list is
\* the run's commits in the order the assignments and their slots were
\* processed, and a successful run returns exactly that list
C25_CommittedEntriesAppendOnly ==
    [][\A i \in Invs :
          InLoop(i) =>
            /\ IsPrefix(generatedEntries, generatedEntries')
            /\ Len(generatedEntries') <= Len(generatedEntries) + 1
            /\ generatedEntries = OwnEntries(i)
            /\ CommittedInProcessingOrder(i)
            /\ (pc'[i] = "done" /\ result'[i].success) =>
                  result'[i].timetableEntries = OwnEntries(i)]_vars

\* a run has returned entries of two assignments, one of them committed
\* through the resolver after a slot was left unresolved
C25_Witness ==
    \E i \in Invs :
        /\ Returned(i)
        /\ Len(result[i].timetableEntries) >= 2
        /\ \E p, q, r \in DOMAIN log[i] :
              /\ p < q /\ q < r
              /\ log[i][p].kind = "direct"
              /\ log[i][q].kind = "unresolved"
              /\ log[i][r].kind = "resolved"
              /\ log[i][p].cs # log[i][r].cs

\* the events of run i of one kind, and the messages of one kind in a list
EventsOfKind(i, kind) == {p \in DOMAIN log[i] : log[i][p].kind = kind}

MessagesOfKind(list, kind) == {p \in DOMAIN list : list[p].kind = kind}

\* the slots run i has carried through the slot loop: for each assignment
\* whose slots were found, the slots tried so far
SlotsTriedFor(i, p) ==
    LET weeklyHours == subjects[FindIdx(subjects, classSubjects[log[i][p].cs].subjectId)].weeklyHours
        limit       == IF log[i][p].n < weeklyHours THEN log[i][p].n ELSE weeklyHours
    IN IF log[i][p].cs < csIdx[i] \/ pc[i] = "done" THEN limit
       ELSE IF pc[i] = "resolve" THEN slotIdx[i] - 1
       ELSE IF slotIdx[i] - 1 < limit THEN slotIdx[i] - 1 ELSE limit

RECURSIVE SlotsTriedUpTo(_, _)
SlotsTriedUpTo(i, p) ==
    IF p = 0 THEN 0
    ELSE SlotsTriedUpTo(i, p - 1)
           + (IF log[i][p].kind = "slots" THEN SlotsTriedFor(i, p) ELSE 0)

SlotsTried(i) == SlotsTriedUpTo(i, Len(log[i]))

\* the conflict messages the log of run i accounts for, in its order
MessageOfEvent(i, ev) ==
    IF ev.kind = "slots"
    THEN ShortfallMessage(subjects[FindIdx(subjects, classSubjects[ev.cs].subjectId)].weeklyHours,
                          subjects[FindIdx(subjects, classSubjects[ev.cs].subjectId)],
                          classes[FindIdx(classes, classSubjects[ev.cs].classId)])
    ELSE UnresolvableMessage(subjects[FindIdx(subjects, classSubjects[ev.cs].subjectId)],
                             classes[FindIdx(classes, classSubjects[ev.cs].classId)],
                             PeriodOfEntry(ev.entry))

ReportsMessage(ev) ==
    \/ ev.kind = "unresolved"
    \/ /\ ev.kind = "slots"
       /\ ev.n < subjects[FindIdx(subjects, classSubjects[ev.cs].subjectId)].weeklyHours

MessagesInOrder(i) ==
    LET reported == SelectSeq(log[i], ReportsMessage)
    IN [k \in DOMAIN reported |-> MessageOfEvent(i, reported[k])]

\* C26: while a run on its own is under way and when it has returned, the
\* committed entries and the unresolvable-conflict messages together are as
\* many as the slots tried, every slot giving the one or the other;
\* conflictsResolved counts the entries committed through the resolver; the
\* messages stand in the order of processing, an assignment's shortfall
\* message before its unresolvable-conflict messages; a successful result
\* reports these numbers
C26_OneOutcomePerSlot ==
    \A i \in Invs :
        /\ (InLoop(i) \/ Returned(i)) =>
              /\ Len(generatedEntries) + Cardinality(MessagesOfKind(conflicts[i], "unresolvable"))
                    = SlotsTried(i)
              /\ Len(generatedEntries)
                    = Cardinality(EventsOfKind(i, "direct")) + Cardinality(EventsOfKind(i, "resolved"))
              /\ conflictsResolved[i] = Cardinality(EventsOfKind(i, "resolved"))
              /\ conflicts[i] = MessagesInOrder(i)
              /\ \A q \in EventsOfKind(i, "unresolved") :
                    \E p \in EventsOfKind(i, "slots") : p < q /\ log[i][p].cs = log[i][q].cs
        /\ Returned(i) =>
              /\ result[i].stats.totalEntries = Len(result[i].timetableEntries)
              /\ result[i].stats.conflictsResolved = Cardinality(EventsOfKind(i, "resolved"))
              /\ result[i].conflicts = MessagesInOrder(i)
              /\ result[i].stats.totalEntries
                    + Cardinality(MessagesOfKind(result[i].conflicts, "unresolvable"))
                    = SlotsTried(i)

\* a successful result with an entry and with an assignment whose shortfall
\* message is followed by its unresolvable-conflict message
C26_Witness ==
    \E i \in Invs :
        /\ Returned(i)
        /\ result[i].stats.totalEntries > 0
        /\ Len(result[i].conflicts) >= 2
        /\ \E p, q \in DOMAIN log[i] :
              /\ p < q /\ log[i][p].cs = log[i][q].cs
              /\ log[i][p].kind = "slots" /\ ReportsMessage(log[i][p])
              /\ log[i][q].kind = "unresolved"

\* the engine run of request i fails: the stored catalog has no class-subject
\* assignment for it to load, or it has returned success=false
RunFails(i) ==
    \/ /\ pc[i] \in {"clear", "load"}
       /\ HasNoAssignments(storage.classes, storage.classSubjects)
    \/ pc[i] = "done" /\ ~result[i].success

\* C27: no step of a generate-schedule request whose engine run fails changes
\* the stored timetable, so the entries of the previous generation are still
\* stored once it is answered
C27_FailedRequestKeepsTimetable ==
    [][\A i \in Invs :
          RunFails(i) => storage'.timetableEntries = storage.timetableEntries]_vars

\* C28: every entry of a successful result names a teacher who is available
\* in the entry's period, a pinned preferred teacher included
C28_ResultTeachersAvailable ==
    \A i \in Invs :
        Returned(i) =>
            \A k \in DOMAIN result[i].timetableEntries :
                LET entry == result[i].timetableEntries[k]
                IN /\ FindIdx(teachers, entry.teacherId) # 0
                   /\ isTeacherAvailable(teachers[FindIdx(teachers, entry.teacherId)],
                                         PeriodOfEntry(entry))

\* C29: every entry of a successful result names a teacher for whom a
\* teacher-subject assignment with the entry's subject is stored, a pinned
\* preferred teacher included
C29_ResultTeachersEligible ==
    \A i \in Invs :
        Returned(i) =>
            \A k \in DOMAIN result[i].timetableEntries :
                \E r \in DOMAIN storage.teacherSubjects :
                    /\ storage.teacherSubjects[r].teacherId = result[i].timetableEntries[k].teacherId
                    /\ storage.teacherSubjects[r].subjectId = result[i].timetableEntries[k].subjectId

\* C30: between the slot iterations of a run each teacher's weekly counter is
\* the number of committed entries naming the teacher and each per-day counter
\* the number of those in periods of that day
C30_CountersMatchCommittedEntries ==
    \A i \in Invs :
        pc[i] \in {"slot", "assign"} =>
            \A t \in DOMAIN teacherWorkloads :
                /\ teacherWorkloads[t].totalClasses = TeacherTotal(generatedEntries, t)
                /\ \A d \in Days :
                      teacherWorkloads[t].classesPerDay[d] = TeacherOnDay(generatedEntries, t, d)

====
